---- MODULE Spec2Model ----
(***************************************************************************)
(* go-make: the dependency resolver / builder (pkg/builder/builder.go)     *)
(* over the rule model (pkg/types/makefile.go).                            *)
(*                                                                         *)
(* Builder.Build is recursive and blocks on one shell command at a time.   *)
(* The Go call stack is the variable stack: one frame per active Build     *)
(* call that passed the entry checks, holding the position of its loop     *)
(* over rule.Dependencies (i) and over rule.Commands (j).  The filesystem  *)
(* maps a name to its modification time, 0 meaning "no entry".             *)
(***************************************************************************)
EXTENDS Integers, Sequences, FiniteSets, TLC

\* ------------------------------------------------------------------ bounds
\* Top-level Build calls followed within one session (between two Resets).
MaxCalls == 2
\* Modification times are 1..MaxTime.
MaxTime == 2
\* A text given to the expander is made of at most MaxParts parts.
MaxParts == 3
\* The parser reads at most MaxLines lines.
MaxLines == 4

\* ------------------------------------------------------------- rule model
Names == {"a", "b", "c"}

Times == 0..MaxTime

Rule(target, dependencies, commands) ==
    [Target |-> target, Dependencies |-> dependencies, Commands |-> commands]

\* all -> hello.o -> hello.c : a chain that ends in a source file without rule
MkChain ==
    [FirstRule |-> "a",
     Rules |-> ("a" :> Rule("a", <<"b">>, <<"link a">>)
              @@ "b" :> Rule("b", <<"c">>, <<"cc -c c", "touch b">>))]

\* a -> b -> a, with an ordinary prerequisite c listed before the cycle
MkCycle ==
    [FirstRule |-> "a",
     Rules |-> ("a" :> Rule("a", <<"c", "b">>, <<"echo building a">>)
              @@ "b" :> Rule("b", <<"a">>, <<"echo building b">>)
              @@ "c" :> Rule("c", <<>>, <<"echo building c">>))]

\* a lists itself; b lists the rule-less name c and then itself
MkSelf ==
    [FirstRule |-> "b",
     Rules |-> ("a" :> Rule("a", <<"a">>, <<"echo a">>)
              @@ "b" :> Rule("b", <<"c", "b">>, <<"echo b">>))]

\* c is a prerequisite of both a and b; a is a command-less aggregate
MkDiamond ==
    [FirstRule |-> "a",
     Rules |-> ("a" :> Rule("a", <<"b", "c">>, <<>>)
              @@ "b" :> Rule("b", <<"c">>, <<"cc -o b c">>)
              @@ "c" :> Rule("c", <<>>, <<"gen c", "touch c">>))]

\* out: a.c b.c : one rule over two source files without rules
MkLink ==
    [FirstRule |-> "a",
     Rules |-> ("a" :> Rule("a", <<"b", "c">>, <<"cc -o $@ $^", "echo $?">>))]

\* no rule at all
MkEmpty == [FirstRule |-> "", Rules |-> [t \in {} |-> Rule(t, <<>>, <<>>)]]

Makefiles == {MkChain, MkCycle, MkSelf, MkDiamond, MkLink, MkEmpty}

\* ---------------------------------------------------------------- errors
\* An error value: the pieces of its message and the error it wraps
\* (errors.Unwrap), "" when it wraps none.  NilErr is Go's nil error.
NilErr == [msg |-> <<>>, wrapped |-> ""]

CycleMsg == "circular dependency detected involving target "
NoRuleMsg == "no rule to make target "
CommandFailedMsg == "command failed: "

\* fmt.Errorf("circular dependency detected involving target '%s'", target)
CycleErr(target) == [msg |-> <<CycleMsg, target>>, wrapped |-> ""]

\* fmt.Errorf("no rule to make target '%s'", target)
NoRuleErr(target) == [msg |-> <<NoRuleMsg, target>>, wrapped |-> ""]

\* fmt.Errorf("command failed: %s", err): the verb %s formats err's text
\* into the message; only %w would make the result wrap err.
CommandFailedErr(runErr) == [msg |-> <<CommandFailedMsg, runErr>>, wrapped |-> ""]

\* What cmd.Run() returns: nil, an *exec.ExitError, or a launch failure.
RunOk == ""
RunResults == {RunOk, "exit status 1", "fork/exec /bin/sh: no such file"}

Kind(e) ==
    IF e = NilErr THEN "nil"
    ELSE IF e.msg[1] = CycleMsg THEN "CycleDetected"
    ELSE IF e.msg[1] = NoRuleMsg THEN "NoRuleForTarget"
    ELSE "CommandFailed"

VARIABLES
    makefile,   \* Builder.makefile: the parsed rule set, read-only
    built,      \* Builder.built    : map[string]bool
    building,   \* Builder.building : map[string]bool
    stack,      \* the active Build calls, outermost first
    err,        \* the error being returned, or of the last return
    fs,         \* the filesystem: name -> modification time, 0 = absent
    history,    \* targets of the top-level Build calls of this session
    trace,      \* the commands handed to the shell in this session
    prior,      \* built and building as the last Reset found them
    expansion,  \* one call of the variable expander: its arguments and result
    makeCall,   \* one call of Make.Build or Make.BuildMultiple
    parser      \* one run of ParseMakefileFromReader

vars == <<makefile, built, building, stack, err, fs, history, trace, prior, expansion,
          makeCall, parser>>

Rules == makefile.Rules

HasRule(target) == target \in DOMAIN Rules

\* ------------------------------------------------------------- filesystem
\* fileExists with the test of os.Stat's error inverted.
fileExists_Inverted(filename) == fs[filename] = 0

\* fileExists checks if a file exists on the filesystem.
fileExists(filename) == fs[filename] # 0

\* After taking an equal modification time for a later one.
After_OrEqual(t, u) == t >= u

\* time.Time.After
After(t, u) == t > u

\* The loop taking a dependency without file for a newer one.
RECURSIVE AnyDepNewer_MissingIsNewer(_, _, _)
AnyDepNewer_MissingIsNewer(targetTime, dependencies, k) ==
    IF k > Len(dependencies) THEN FALSE
    ELSE IF fs[dependencies[k]] = 0 THEN TRUE
    ELSE IF After(fs[dependencies[k]], targetTime) THEN TRUE
    ELSE AnyDepNewer_MissingIsNewer(targetTime, dependencies, k + 1)

\* needsRebuild's loop over the dependencies from index k on.
RECURSIVE AnyDepNewer(_, _, _)
AnyDepNewer(targetTime, dependencies, k) ==
    IF k > Len(dependencies) THEN FALSE
    ELSE IF fs[dependencies[k]] = 0 THEN AnyDepNewer(targetTime, dependencies, k + 1)
    ELSE IF After(fs[dependencies[k]], targetTime) THEN TRUE
    ELSE AnyDepNewer(targetTime, dependencies, k + 1)

\* needsRebuild finding every target out of date.
needsRebuild_Always(target, dependencies) == TRUE

needsRebuild(target, dependencies) ==
    IF fs[target] = 0 THEN TRUE
    ELSE AnyDepNewer(fs[target], dependencies, 1)

\* getNewerPrerequisites' loop over the dependencies from index k on.
RECURSIVE NewerFrom(_, _, _)
NewerFrom(targetTime, dependencies, k) ==
    IF k > Len(dependencies) THEN <<>>
    ELSE IF fs[dependencies[k]] = 0 THEN NewerFrom(targetTime, dependencies, k + 1)
    ELSE IF After(fs[dependencies[k]], targetTime)
         THEN <<dependencies[k]>> \o NewerFrom(targetTime, dependencies, k + 1)
    ELSE NewerFrom(targetTime, dependencies, k + 1)

\* getNewerPrerequisites returning no prerequisite for a missing target.
getNewerPrerequisites_EmptyWhenMissing(target, dependencies) ==
    IF fs[target] = 0 THEN <<>>
    ELSE NewerFrom(fs[target], dependencies, 1)

getNewerPrerequisites(target, dependencies) ==
    IF fs[target] = 0 THEN dependencies
    ELSE NewerFrom(fs[target], dependencies, 1)

\* The zero value of the context, before createAutomaticVariables has run.
NoAutoVars ==
    [Target |-> "", FirstPrereq |-> "", AllPrereqs |-> <<>>, NewerPrereqs |-> <<>>]

createAutomaticVariables(target, dependencies) ==
    [Target |-> target,
     FirstPrereq |-> IF Len(dependencies) > 0 THEN dependencies[1] ELSE "",
     AllPrereqs |-> dependencies,
     NewerPrereqs |-> getNewerPrerequisites(target, dependencies)]

\* ------------------------------------------------------------ call stack
\* NewFrame starting behind the loop over the dependencies.
NewFrame_SkipDeps(target) ==
    [target |-> target, i |-> Len(makefile.Rules[target].Dependencies) + 1, j |-> 1,
     phase |-> "deps", autoVars |-> NoAutoVars]

NewFrame(target) ==
    [target |-> target, i |-> 1, j |-> 1, phase |-> "deps", autoVars |-> NoAutoVars]

Top == stack[Len(stack)]

Callers(s) == SubSeq(s, 1, Len(s) - 1)

\* Advance with the loop staying at the dependency it has just built.
Advance_Stay(s) == s

\* A callee returned nil to the innermost frame of s, whose loop over the
\* dependencies moves on to the next one.
Advance(s) ==
    IF s = <<>> THEN s
    ELSE [s EXCEPT ![Len(s)].i = @ + 1]

OnStack == {stack[k].target : k \in 1..Len(stack)}

Running == stack # <<>> /\ err = NilErr

\* -------------------------------------------------------- variable expander
\* A text is a sequence of atoms: the characters the three patterns look at
\* ("$", "(", ")", "{", "}", "@", "<", "^", "?") and runs of other characters
\* ("X", "out", "a.c", " ").  A map[string]string is a function from texts.

\* The first index from k on at which text holds the atom ch, 0 if none.
RECURSIVE FirstIndex(_, _, _)
FirstIndex(text, ch, k) ==
    IF k > Len(text) THEN 0
    ELSE IF text[k] = ch THEN k
    ELSE FirstIndex(text, ch, k + 1)

\* os.Getenv: the value of the environment variable, "" when it is not set.
Getenv(name) ==
    IF name \in DOMAIN expansion.env THEN expansion.env[name] ELSE <<>>

\* getVariableValue looks up a variable value, first in the provided map,
\* then in environment variables.
getVariableValue(name, variables) ==
    IF name \in DOMAIN variables THEN variables[name] ELSE Getenv(name)

\* ReplaceAllStringFunc for varPattern1 (open "(", close ")") and
\* varPattern2 (open "{", close "}"), from position p on: the leftmost match
\* starts at a "$" followed by open, takes the atoms up to the first close,
\* at least one, and the scan goes on behind it.
RECURSIVE ReplaceAllRefs(_, _, _, _, _)
ReplaceAllRefs(text, open, close, variables, p) ==
    IF p > Len(text) THEN <<>>
    ELSE LET q == IF p + 1 <= Len(text) /\ text[p] = "$" /\ text[p + 1] = open
                  THEN FirstIndex(text, close, p + 2)
                  ELSE 0
         IN IF q > p + 2
            THEN getVariableValue(SubSeq(text, p + 2, q - 1), variables)
                     \o ReplaceAllRefs(text, open, close, variables, q + 1)
            ELSE <<text[p]>> \o ReplaceAllRefs(text, open, close, variables, p + 1)

\* strings.Join
RECURSIVE Join(_, _)
Join(elems, sep) ==
    IF elems = <<>> THEN <<>>
    ELSE IF Len(elems) = 1 THEN elems[1]
    ELSE elems[1] \o sep \o Join(Tail(elems), sep)

AllPrereqsString(av) == Join(av.AllPrereqs, <<" ">>)

NewerPrereqsString(av) == Join(av.NewerPrereqs, <<" ">>)

AutoTokens == {"@", "<", "^", "?"}

\* The switch with the cases "$^" and "$?" exchanged.
AutoValue_ListsSwapped(ch, av) ==
    CASE ch = "@" -> av.Target
      [] ch = "<" -> av.FirstPrereq
      [] ch = "^" -> NewerPrereqsString(av)
      [] ch = "?" -> AllPrereqsString(av)

\* The switch over the match of autoVarPattern.
AutoValue(ch, av) ==
    CASE ch = "@" -> av.Target
      [] ch = "<" -> av.FirstPrereq
      [] ch = "^" -> AllPrereqsString(av)
      [] ch = "?" -> NewerPrereqsString(av)

\* ReplaceAllStringFunc for autoVarPattern, from position p on.
RECURSIVE ReplaceAllAuto(_, _, _)
ReplaceAllAuto(text, av, p) ==
    IF p > Len(text) THEN <<>>
    ELSE IF p + 1 <= Len(text) /\ text[p] = "$" /\ text[p + 1] \in AutoTokens
    THEN AutoValue(text[p + 1], av) \o ReplaceAllAuto(text, av, p + 2)
    ELSE <<text[p]>> \o ReplaceAllAuto(text, av, p + 1)

\* expandVariablesWithContext taking nil for a context of empty names.
expandVariablesWithContext_NilAsEmpty(text, variables, autoVars) ==
    LET av == IF autoVars # <<>> THEN autoVars[1]
              ELSE [Target |-> <<>>, FirstPrereq |-> <<>>,
                    AllPrereqs |-> <<>>, NewerPrereqs |-> <<>>]
        afterAuto == ReplaceAllAuto(text, av, 1)
        afterParens == ReplaceAllRefs(afterAuto, "(", ")", variables, 1)
    IN ReplaceAllRefs(afterParens, "{", "}", variables, 1)

\* expandVariablesWithContext replacing the automatic variables last.
expandVariablesWithContext_AutoLast(text, variables, autoVars) ==
    LET afterParens == ReplaceAllRefs(text, "(", ")", variables, 1)
        afterBraces == ReplaceAllRefs(afterParens, "{", "}", variables, 1)
    IN IF autoVars # <<>> THEN ReplaceAllAuto(afterBraces, autoVars[1], 1)
       ELSE afterBraces

\* expandVariablesWithContext; autoVars is a pointer: <<>> is nil, <<av>>
\* points to av.
expandVariablesWithContext(text, variables, autoVars) ==
    LET afterAuto == IF autoVars # <<>> THEN ReplaceAllAuto(text, autoVars[1], 1)
                     ELSE text
        afterParens == ReplaceAllRefs(afterAuto, "(", ")", variables, 1)
    IN ReplaceAllRefs(afterParens, "{", "}", variables, 1)

expandVariables(text, variables) == expandVariablesWithContext(text, variables, <<>>)

\* Before the first Reset: nothing was built or being built.
NoPrior == [built |-> [n \in Names |-> FALSE], building |-> [n \in Names |-> FALSE]]

\* No call of the expander is being looked at.
NoExpansion == [pc |-> "none"]

\* No call of Make is in progress or has returned.
NoMakeCall == [pc |-> "none"]

\* No Makefile is being parsed.
NoParser == [pc |-> "none"]

\* -------------------------------------------------------------------- Init
\* NewBuilder: both maps empty.  The filesystem starts empty and is filled
\* by FileSystemChange before and between the builds.
Init ==
    /\ makefile \in Makefiles
    /\ built = [n \in Names |-> FALSE]
    /\ building = [n \in Names |-> FALSE]
    /\ stack = <<>>
    /\ err = NilErr
    /\ fs = [n \in Names |-> 0]
    /\ history = <<>>
    /\ trace = <<>>
    /\ prior = NoPrior
    /\ expansion = NoExpansion
    /\ makeCall = NoMakeCall
    /\ parser = NoParser

\* ------------------------------------------------------------------ Build
\* EntryCheck without the memoization of built targets.
EntryCheck_NoMemo(target) ==
    IF building[target] THEN "cycle"
    ELSE IF ~HasRule(target)
         THEN IF fileExists(target) THEN "file" ELSE "norule"
    ELSE "descend"

\* EntryCheck taking a target that is being built for a satisfied one.
EntryCheck_CycleOk(target) ==
    IF built[target] \/ building[target] THEN "built"
    ELSE IF ~HasRule(target)
         THEN IF fileExists(target) THEN "file" ELSE "norule"
    ELSE "descend"

\* EntryCheck taking every name without rule for an existing file.
EntryCheck_IgnoreMissing(target) ==
    IF built[target] THEN "built"
    ELSE IF building[target] THEN "cycle"
    ELSE IF ~HasRule(target) THEN "file"
    ELSE "descend"

\* The checks at the head of Build, in their order: what the call does next.
EntryCheck(target) ==
    IF built[target] THEN "built"
    ELSE IF building[target] THEN "cycle"
    ELSE IF ~HasRule(target)
         THEN IF fileExists(target) THEN "file" ELSE "norule"
    ELSE "descend"

\* BuildEntry marking the target as being built before any of the checks.
BuildEntry_MarkEarly(target, s) ==
    LET check == EntryCheck(target) IN
    /\ stack' = CASE check \in {"built", "file"} -> Advance(s)
                  [] check \in {"cycle", "norule"} -> s
                  [] OTHER -> Append(s, NewFrame(target))
    /\ err' = CASE check = "cycle" -> CycleErr(target)
                [] check = "norule" -> NoRuleErr(target)
                [] OTHER -> NilErr
    /\ building' = [building EXCEPT ![target] = TRUE]

\* Build(target) is called from the innermost frame of s (from the user of
\* the Builder when s is empty) and runs up to its first recursive call.
BuildEntry(target, s) ==
    LET check == EntryCheck(target) IN
    /\ stack' = CASE check \in {"built", "file"} -> Advance(s)
                  [] check \in {"cycle", "norule"} -> s
                  [] OTHER -> Append(s, NewFrame(target))
    /\ err' = CASE check = "cycle" -> CycleErr(target)
                [] check = "norule" -> NoRuleErr(target)
                [] OTHER -> NilErr
    /\ building' = IF check = "descend"
                   THEN [building EXCEPT ![target] = TRUE]
                   ELSE building

\* ReturnBuilt leaving the target marked as being built.
ReturnBuilt_NoUnmark ==
    /\ built' = [built EXCEPT ![Top.target] = TRUE]
    /\ stack' = Advance(Callers(stack))
    /\ err' = NilErr
    /\ UNCHANGED building

\* The tail of Build: the innermost frame of stack returns nil.
ReturnBuilt ==
    /\ building' = [building EXCEPT ![Top.target] = FALSE]
    /\ built' = [built EXCEPT ![Top.target] = TRUE]
    /\ stack' = Advance(Callers(stack))
    /\ err' = NilErr

\* Build(target) is called from outside the Builder.
BuildCall(target) ==
    /\ stack = <<>>
    /\ Len(history) < MaxCalls
    /\ BuildEntry(target, <<>>)
    /\ history' = Append(history, target)
    /\ UNCHANGED <<parser, expansion, prior, makefile, built, fs, trace>>

\* A user of the Builder calls Build(target).
Build(target) ==
    /\ BuildCall(target)
    /\ UNCHANGED makeCall

\* for _, dep := range rule.Dependencies { if err := b.Build(dep) ... }
BuildDependency ==
    /\ Running
    /\ Top.phase = "deps"
    /\ Top.i <= Len(Rules[Top.target].Dependencies)
    /\ BuildEntry(Rules[Top.target].Dependencies[Top.i], stack)
    /\ UNCHANGED <<makeCall, parser, expansion, prior, makefile, built, fs, history, trace>>

\* if b.needsRebuild(target, rule.Dependencies) { ... autoVars := ... }
CheckRebuild ==
    /\ Running
    /\ Top.phase = "deps"
    /\ Top.i > Len(Rules[Top.target].Dependencies)
    /\ LET rule == Rules[Top.target] IN
       IF needsRebuild(Top.target, rule.Dependencies) /\ Len(rule.Commands) > 0
       THEN /\ stack' = [stack EXCEPT
                           ![Len(stack)].phase = "cmds",
                           ![Len(stack)].autoVars =
                               createAutomaticVariables(Top.target, rule.Dependencies)]
            /\ UNCHANGED <<built, building, err>>
       ELSE ReturnBuilt
    /\ UNCHANGED <<makeCall, parser, expansion, prior, makefile, fs, history, trace>>

\* The command expanded with a context made anew for it.
Executed_FreshContext(frame, result) ==
    [target |-> frame.target,
     j |-> frame.j,
     command |-> Rules[frame.target].Commands[frame.j],
     autoVars |-> createAutomaticVariables(frame.target,
                                           Rules[frame.target].Dependencies),
     result |-> result,
     chain |-> OnStack,
     call |-> Len(history)]

\* One command of the rule as the trace records it: the command, the
\* context it is expanded with, and what cmd.Run() returned.
Executed(frame, result) ==
    [target |-> frame.target,
     j |-> frame.j,
     command |-> Rules[frame.target].Commands[frame.j],
     autoVars |-> frame.autoVars,
     result |-> result,
     chain |-> OnStack,
     call |-> Len(history)]

\* AfterCommand ignoring the error of cmd.Run().
AfterCommand_KeepGoing(result) ==
    IF Top.j < Len(Rules[Top.target].Commands)
    THEN /\ stack' = [stack EXCEPT ![Len(stack)].j = @ + 1]
         /\ UNCHANGED <<built, building, err>>
    ELSE ReturnBuilt

\* AfterCommand leaving the loop with break instead of return on an error.
AfterCommand_Break(result) ==
    IF result = RunOk /\ Top.j < Len(Rules[Top.target].Commands)
    THEN /\ stack' = [stack EXCEPT ![Len(stack)].j = @ + 1]
         /\ UNCHANGED <<built, building, err>>
    ELSE ReturnBuilt

\* What the loop over rule.Commands does once cmd.Run() has returned result.
AfterCommand(result) ==
    IF result # RunOk
    THEN /\ err' = CommandFailedErr(result)
         /\ UNCHANGED <<stack, built, building>>
    ELSE IF Top.j < Len(Rules[Top.target].Commands)
    THEN /\ stack' = [stack EXCEPT ![Len(stack)].j = @ + 1]
         /\ UNCHANGED <<built, building, err>>
    ELSE ReturnBuilt

\* executeCommandWithContext: sh -c runs the command, which may fail and may
\* leave the filesystem in any state.
ExecuteCommand ==
    /\ Running
    /\ Top.phase = "cmds"
    /\ \E result \in RunResults, after \in [Names -> Times] :
          /\ fs' = after
          /\ trace' = Append(trace, Executed(Top, result))
          /\ AfterCommand(result)
    /\ UNCHANGED <<makeCall, parser, expansion, prior, makefile, history>>

\* ReturnErr with the caller dropping the error and going on.
ReturnErr_KeepGoing ==
    /\ stack # <<>>
    /\ err # NilErr
    /\ stack' = Advance(stack)
    /\ err' = NilErr
    /\ UNCHANGED <<makeCall, parser, expansion, prior, makefile, built, building, fs, history, trace>>

\* if err := b.Build(dep); err != nil { return err } and the return of the
\* frame whose command failed: the innermost frame returns err to its caller.
ReturnErr ==
    /\ stack # <<>>
    /\ err # NilErr
    /\ stack' = Callers(stack)
    /\ UNCHANGED <<makeCall, parser, expansion, prior, makefile, built, building, err, fs, history, trace>>

\* IsBuilt returns true if the target has been successfully built.
IsBuilt(target) == built[target]

\* Reset clearing building only.
Reset_KeepBuilt ==
    /\ stack = <<>>
    /\ building' = [n \in Names |-> FALSE]
    /\ err' = NilErr
    /\ history' = <<>>
    /\ trace' = <<>>
    /\ prior' = [built |-> built, building |-> building]
    /\ UNCHANGED <<makeCall, parser, expansion, makefile, built, stack, fs>>

\* Reset clearing built only.
Reset_KeepBuilding ==
    /\ stack = <<>>
    /\ built' = [n \in Names |-> FALSE]
    /\ err' = NilErr
    /\ history' = <<>>
    /\ trace' = <<>>
    /\ prior' = [built |-> built, building |-> building]
    /\ UNCHANGED <<makeCall, parser, expansion, makefile, building, stack, fs>>

\* Reset clears the built state.  A new session starts: the records kept
\* about the session that ends (history, trace, last result) start afresh.
Reset ==
    /\ stack = <<>>
    /\ built' = [n \in Names |-> FALSE]
    /\ building' = [n \in Names |-> FALSE]
    /\ err' = NilErr
    /\ history' = <<>>
    /\ trace' = <<>>
    /\ prior' = [built |-> built, building |-> building]
    /\ UNCHANGED <<makeCall, parser, expansion, makefile, stack, fs>>

\* Between two builds anything may write or remove a file.
FileSystemChange ==
    /\ stack = <<>>
    /\ \E f \in Names, t \in Times :
          /\ t # fs[f]
          /\ fs' = [fs EXCEPT ![f] = t]
    /\ UNCHANGED <<makeCall, parser, expansion, prior, makefile, built, building, stack, err, history, trace>>

Next ==
    \/ \E target \in Names : Build(target)
    \/ BuildDependency
    \/ CheckRebuild
    \/ ExecuteCommand
    \/ ReturnErr
    \/ Reset
    \/ FileSystemChange

Spec == Init /\ [][Next]_vars

\* A call of Build that has started goes on: Go runs the body of Build
\* statement by statement, and cmd.Run() returns when the command ends.
BuildStep ==
    \/ BuildDependency
    \/ CheckRebuild
    \/ ExecuteCommand
    \/ ReturnErr

\* The Builder of a rule set with a cycle, with a self-dependency or
\* without either.
TerminatingInit == Init /\ makefile \in {MkCycle, MkSelf, MkChain}

\* The Builder under the assumption that every command terminates.
SpecTerminating == TerminatingInit /\ [][Next]_vars /\ WF_vars(BuildStep)

\* ------------------------------------------------------- the rule graph
Range(seq) == {seq[k] : k \in 1..Len(seq)}

Last(seq) == seq[Len(seq)]

\* The prerequisites of a name: none when it has no rule.
Prereqs(n) == IF HasRule(n) THEN Range(Rules[n].Dependencies) ELSE {}

RECURSIVE Closure(_, _)
Closure(S, steps) ==
    IF steps = 0 THEN S
    ELSE Closure(S \cup UNION {Prereqs(n) : n \in S}, steps - 1)

\* The names reachable from n along one or more prerequisite edges.
ReachableFrom(n) == Closure(Prereqs(n), Cardinality(Names))

OnCycle(n) == n \in ReachableFrom(n)

CycleReachable(T) == \E n \in {T} \cup ReachableFrom(T) : OnCycle(n)

\* The last top-level Build call of the session has returned.
Returned == stack = <<>> /\ history # <<>>

\* ----------------------------------------------------------------- claims

\* C1: within one session every command of every rule is handed to the
\* shell at most once, and a top-level Build of a target that an earlier
\* call of the session already requested executes no command at all.
C1_BuildTwiceRunsOnce ==
    /\ \A p, q \in DOMAIN trace :
          (trace[p].target = trace[q].target /\ trace[p].j = trace[q].j) => p = q
    /\ \A p \in DOMAIN trace :
          \A k \in 1..(trace[p].call - 1) : history[k] # history[trace[p].call]

\* C1 witness: the same target was built twice, the first call ran commands
\* and both calls have returned, the second with success.
C1_Witness ==
    /\ Returned
    /\ Len(history) >= 2
    /\ history[1] = history[2]
    /\ err = NilErr
    /\ trace # <<>>
    /\ built[history[1]]

\* C2 as stated: Build(T) over a rule set with a prerequisite cycle reachable
\* from T returns CycleDetected and nothing else.
C2_AlwaysCycleDetected ==
    (Returned /\ CycleReachable(Last(history))) => Kind(err) = "CycleDetected"

\* A command of the last top-level call failed and nothing ran after it.
LastCommandFailed ==
    /\ trace # <<>>
    /\ Last(trace).result # RunOk
    /\ Last(trace).call = Len(history)

\* C2 amended: Build(T) with a prerequisite cycle reachable from T never
\* succeeds; it returns CycleDetected unless the walk first meets a
\* prerequisite that has neither rule nor file (NoRuleForTarget, naming a
\* name reachable from T) or a command that fails (CommandFailed).
C2_CycleNeverSucceeds ==
    (Returned /\ CycleReachable(Last(history))) =>
        \/ Kind(err) = "CycleDetected"
        \/ /\ Kind(err) = "NoRuleForTarget"
           /\ err.msg[2] \in ReachableFrom(Last(history))
           /\ ~HasRule(err.msg[2])
        \/ /\ Kind(err) = "CommandFailed"
           /\ LastCommandFailed

\* C2 witness: a build that reached the cycle after running a command of an
\* earlier prerequisite, and returned CycleDetected.
C2_Witness ==
    /\ Returned
    /\ CycleReachable(Last(history))
    /\ Kind(err) = "CycleDetected"
    /\ trace # <<>>

\* C3 as stated: once the top-level Build has returned, building is empty,
\* so CycleDetected is returned only for a real prerequisite cycle.
C3_BuildingClearedOnExit ==
    stack = <<>> =>
        /\ \A n \in Names : ~building[n]
        /\ (history # <<>> /\ Kind(err) = "CycleDetected")
              => CycleReachable(Last(history))

\* C4: the staleness the claim states, for the rule target T.
StaleAsClaimed(T) ==
    \/ fs[T] = 0
    \/ \E k \in 1..Len(Rules[T].Dependencies) :
          /\ fs[Rules[T].Dependencies[k]] # 0
          /\ fs[Rules[T].Dependencies[k]] > fs[T]

\* The innermost Build has resolved all its prerequisites and decides next.
AtStalenessCheck ==
    /\ Running
    /\ Top.phase = "deps"
    /\ Top.i > Len(Rules[Top.target].Dependencies)

\* C4: when all prerequisites of T are resolved, Build goes on to T's
\* commands if and only if T has no file or an existing prerequisite file is
\* strictly newer than T's; otherwise it returns without running a command.
\* A command is run only by a Build that made this decision, and it is the
\* next command of that Build's own rule.
C4_StalenessDecidesCommands ==
    [][ /\ AtStalenessCheck =>
            IF StaleAsClaimed(Top.target) /\ Rules[Top.target].Commands # <<>>
            THEN /\ Len(stack') = Len(stack)
                 /\ stack'[Len(stack)].target = Top.target
                 /\ stack'[Len(stack)].phase = "cmds"
                 /\ stack'[Len(stack)].j = 1
            ELSE /\ stack' = Advance(Callers(stack))
                 /\ trace' = trace
                 /\ built'[Top.target]
        /\ (Running /\ Top.phase = "cmds") =>
              /\ trace' = Append(trace, trace'[Len(trace')])
              /\ trace'[Len(trace')].target = Top.target
              /\ trace'[Len(trace')].j = Top.j
        /\ (Len(trace') > Len(trace)) => (Running /\ Top.phase = "cmds")
      ]_vars

\* C4 witness: a target whose file exists is about to run its first command
\* (a prerequisite file is newer), in a session that has already left
\* another existing target alone.
C4_Witness ==
    /\ Running
    /\ Top.phase = "cmds"
    /\ Top.j = 1
    /\ fs[Top.target] # 0
    /\ \E n \in Names : built[n] /\ \A p \in DOMAIN trace : trace[p].target # n

\* C5: while a command of T runs, all prerequisites of T have been resolved
\* (those with a rule are in built); the loop over the prerequisites moves
\* one position at a time and only past a prerequisite that is built or has
\* no rule and exists; no command of a prerequisite of T runs after a
\* command of T.
C5_PrerequisitesFirst ==
    /\ [](\A k \in DOMAIN stack :
            stack[k].phase = "cmds" =>
               /\ stack[k].i = Len(Rules[stack[k].target].Dependencies) + 1
               /\ \A d \in Prereqs(stack[k].target) : HasRule(d) => built[d])
    /\ [](\A p, q \in DOMAIN trace :
            p < q => trace[q].target \notin Prereqs(trace[p].target))
    /\ [][\A k \in DOMAIN stack :
            (k <= Len(stack') /\ stack'[k].target = stack[k].target
                /\ stack'[k].i # stack[k].i) =>
               /\ stack'[k].i = stack[k].i + 1
               /\ LET d == Rules[stack[k].target].Dependencies[stack[k].i] IN
                    \/ built'[d]
                    \/ ~HasRule(d) /\ fs'[d] # 0
         ]_vars

\* C5 witness: T is running its command after a command of one of its
\* prerequisites ran in the same call.
C5_Witness ==
    /\ Running
    /\ Top.phase = "cmds"
    /\ trace # <<>>
    /\ Last(trace).target \in Prereqs(Top.target)
    /\ Last(trace).call = Len(history)

\* C6: a command other than the first of its rule directly follows, in the
\* same call, the successful run of the command listed before it in the same
\* rule, and the text handed over is the one listed at that position.
C6_CommandsInListedOrder ==
    \A q \in DOMAIN trace :
        /\ trace[q].command = Rules[trace[q].target].Commands[trace[q].j]
        /\ trace[q].j > 1 =>
              /\ q > 1
              /\ trace[q - 1].target = trace[q].target
              /\ trace[q - 1].j = trace[q].j - 1
              /\ trace[q - 1].result = RunOk
              /\ trace[q - 1].call = trace[q].call

\* C6 witness: two rules with commands ran in one session, one of them its
\* second command.
C6_Witness ==
    /\ Len(trace) >= 3
    /\ \E q \in DOMAIN trace : trace[q].j = 2
    /\ \E p, q \in DOMAIN trace : trace[p].target # trace[q].target

\* C7: while an error is being returned, every Build on the stack hands the
\* same error to its caller as its next step, with no further prerequisite
\* resolved, no command run and no change to built or building; no target
\* on the stack is built.
C7_FailFast ==
    /\ [][(stack # <<>> /\ err # NilErr) =>
            /\ stack' = Callers(stack)
            /\ err' = err
            /\ built' = built
            /\ building' = building
            /\ trace' = trace
            /\ fs' = fs]_vars
    /\ []((stack # <<>> /\ err # NilErr) => \A t \in OnStack : ~built[t])

\* C7 witness: the failure of a prerequisite is on its way up through a
\* target that has a later prerequisite still unresolved.
C7_Witness ==
    /\ stack # <<>>
    /\ err # NilErr
    /\ Top.phase = "deps"
    /\ Top.i < Len(Rules[Top.target].Dependencies)

\* C8: after a command of T failed, no target that was on the stack then (T
\* and its ancestors) runs a command later in the session or is built, the
\* call runs no further command, and it returns CommandFailed for that
\* failure without resolving another prerequisite.
C8_CommandFailureAborts ==
    /\ [](\A p \in DOMAIN trace :
            trace[p].result # RunOk =>
               /\ \A q \in DOMAIN trace : q > p => trace[q].target \notin trace[p].chain
               /\ \A t \in trace[p].chain : ~built[t]
               /\ \A q \in DOMAIN trace : q > p => trace[q].call > trace[p].call
               /\ trace[p].call = Len(history) =>
                     err = CommandFailedErr(trace[p].result))
    /\ [][(stack # <<>> /\ Kind(err) = "CommandFailed") =>
            (stack' = Callers(stack) /\ err' = err /\ building' = building)]_vars

\* C8 witness: the first command of a rule with two commands failed below
\* an ancestor, and the call has returned.
C8_Witness ==
    /\ Returned
    /\ Kind(err) = "CommandFailed"
    /\ LastCommandFailed
    /\ Last(trace).j < Len(Rules[Last(trace).target].Commands)
    /\ Cardinality(Last(trace).chain) >= 2

\* C9 as stated: the CommandFailed error carries the text of the command
\* that failed and wraps the error of its execution.
C9_ErrorKeepsCommandAndCause ==
    Kind(err) = "CommandFailed" =>
        /\ trace # <<>>
        /\ Last(trace).command \in Range(err.msg)
        /\ err.wrapped = Last(trace).result

\* C10: Build(name), called by the user or for a prerequisite, of a name
\* that has no rule and exists as a file returns nil at once: no command is
\* run and the caller goes on.
C10_ExistingFileWithoutRule ==
    [][ /\ \A name \in Names :
             (stack = <<>> /\ history' = Append(history, name)
                 /\ ~HasRule(name) /\ fs[name] # 0) =>
                (stack' = <<>> /\ err' = NilErr /\ trace' = trace)
        /\ (Running /\ Top.phase = "deps"
               /\ Top.i <= Len(Rules[Top.target].Dependencies)) =>
              LET name == Rules[Top.target].Dependencies[Top.i] IN
                (~HasRule(name) /\ fs[name] # 0) =>
                   (stack' = Advance(stack) /\ err' = NilErr /\ trace' = trace)
      ]_vars

\* C10 witness: Build of an existing file without rule has just returned
\* nil in a session that ran no command.
C10_Witness ==
    /\ Returned
    /\ ~HasRule(Last(history))
    /\ fs[Last(history)] # 0
    /\ err = NilErr
    /\ trace = <<>>

\* The innermost Build is about to call Build for its next prerequisite.
AtPrerequisite ==
    /\ Running
    /\ Top.phase = "deps"
    /\ Top.i <= Len(Rules[Top.target].Dependencies)

\* C11: Build(name) of a name with neither rule nor file returns
\* NoRuleForTarget naming it, whether the user or a Build calls it; every
\* enclosing Build then returns that error, and none of them is built.
C11_NoRuleForMissing ==
    /\ [][ /\ \A name \in Names :
                (stack = <<>> /\ history' = Append(history, name)
                    /\ ~HasRule(name) /\ fs[name] = 0) =>
                   (stack' = <<>> /\ err' = NoRuleErr(name) /\ trace' = trace)
           /\ AtPrerequisite =>
                LET name == Rules[Top.target].Dependencies[Top.i] IN
                  (~HasRule(name) /\ fs[name] = 0) =>
                     (stack' = stack /\ err' = NoRuleErr(name) /\ trace' = trace)
           /\ (stack # <<>> /\ Kind(err) = "NoRuleForTarget") =>
                (stack' = Callers(stack) /\ err' = err)
         ]_vars
    /\ [](Kind(err) = "NoRuleForTarget" =>
             /\ ~HasRule(err.msg[2])
             /\ \A t \in OnStack : ~built[t] /\ err.msg[2] \in ReachableFrom(t))

\* C11 witness: the Build of a rule target has returned NoRuleForTarget for
\* a missing prerequisite.
C11_Witness ==
    /\ Returned
    /\ Kind(err) = "NoRuleForTarget"
    /\ HasRule(Last(history))
    /\ err.msg[2] # Last(history)

\* C12: after Reset no target is built, those built before included; the
\* first Build(T) of the new session of a target built before enters T
\* again, and once T's prerequisites are resolved T's commands run exactly
\* when T is stale at that moment.
C12_ResetRebuilds ==
    /\ []((history = <<>>) => \A T \in Names : prior.built[T] => ~IsBuilt(T))
    /\ [][ /\ \A T \in Names :
                (history = <<>> /\ history' = <<T>> /\ prior.built[T]) =>
                   (stack' = <<NewFrame(T)>> /\ err' = NilErr)
           /\ (AtStalenessCheck /\ prior.built[Top.target]
                   /\ Rules[Top.target].Commands # <<>>) =>
                ( (Len(stack') = Len(stack) /\ stack'[Len(stack)].phase = "cmds")
                    <=> StaleAsClaimed(Top.target) )
           /\ (Running /\ Top.phase = "cmds" /\ prior.built[Top.target]) =>
                (Len(trace') = Len(trace) + 1
                   /\ trace'[Len(trace')].target = Top.target)
         ]_vars

\* C12 witness: a target built before the Reset ran a command again and is
\* built again.
C12_Witness ==
    \E T \in Names :
        /\ prior.built[T]
        /\ built[T]
        /\ \E p \in DOMAIN trace : trace[p].target = T

\* C13: Reset leaves built and building empty whatever the session before
\* it did, so a session that follows a Reset starts in the state NewBuilder
\* sets up, over the same rules and files, and its first Build does what it
\* does on a new Builder.
C13_ResetAsNew ==
    /\ [][(history # <<>> /\ history' = <<>>) =>
             /\ built' = [n \in Names |-> FALSE]
             /\ building' = [n \in Names |-> FALSE]
             /\ stack' = <<>>
             /\ fs' = fs
             /\ makefile' = makefile]_vars
    /\ []((history = <<>>) =>
             /\ stack = <<>>
             /\ \A n \in Names : ~built[n] /\ ~building[n])
    /\ [][\A T \in Names :
             (history = <<>> /\ history' = <<T>>) =>
                IF HasRule(T)
                THEN /\ stack' = <<NewFrame(T)>>
                     /\ err' = NilErr
                     /\ building' = [n \in Names |-> n = T]
                ELSE /\ stack' = <<>>
                     /\ err' = IF fs[T] # 0 THEN NilErr ELSE NoRuleErr(T)
                     /\ building' = [n \in Names |-> FALSE]
         ]_vars

\* C13 witness: a target that a failed Build had left marked as being built
\* when Reset was called has been built in the session after the Reset.
C13_Witness ==
    \E n \in Names : prior.building[n] /\ built[n]

\* C14: when the Build of a rule target T has returned nil, T and every
\* rule target among its transitive prerequisites are built and none of
\* them is marked as being built.
C14_SuccessMarksBuilt ==
    (Returned /\ err = NilErr /\ HasRule(Last(history))) =>
        \A t \in {Last(history)} \cup ReachableFrom(Last(history)) :
            HasRule(t) => (IsBuilt(t) /\ ~building[t])

\* C14 witness: Build(T) returned nil without running a command of T, T
\* having a prerequisite with a rule.
C14_Witness ==
    /\ Returned
    /\ err = NilErr
    /\ HasRule(Last(history))
    /\ \E d \in Prereqs(Last(history)) : HasRule(d)
    /\ \A p \in DOMAIN trace : trace[p].target # Last(history)
    /\ Rules[Last(history)].Commands # <<>>

\* C20: the newer-prerequisites list of a build step is the full list of
\* prerequisites when the target has no file, and otherwise the prerequisites
\* that have a file strictly newer than the target's, in their listed order.
C20_NewerPrerequisites ==
    [][(AtStalenessCheck /\ Len(stack') = Len(stack)
           /\ stack'[Len(stack)].phase = "cmds") =>
          LET T == Top.target
              deps == Rules[T].Dependencies
              IsNewer(d) == fs[d] # 0 /\ fs[d] > fs[T]
          IN stack'[Len(stack)].autoVars.NewerPrereqs =
                IF fs[T] = 0 THEN deps ELSE SelectSeq(deps, IsNewer)
      ]_vars

\* C20 witness: a build step of an existing target with two prerequisites
\* of which exactly one is newer.
C20_Witness ==
    /\ Running
    /\ Top.phase = "cmds"
    /\ Top.j = 1
    /\ fs[Top.target] # 0
    /\ Len(Top.autoVars.AllPrereqs) = 2
    /\ Len(Top.autoVars.NewerPrereqs) = 1

\* ------------------------------------------------------------------ Make
\* fmt.Errorf("no targets found in Makefile")
NoTargetsMsg == "no targets found in Makefile"

NoTargetsErr == [msg |-> <<NoTargetsMsg>>, wrapped |-> ""]

\* fmt.Errorf("failed to build target '%s': %w", target, err): the message
\* holds the target and the text of err, and the error wraps err.
FailedToBuildMsg == "failed to build target"

FailedToBuildErr(target, inner) ==
    [msg |-> <<FailedToBuildMsg, target>> \o inner.msg, wrapped |-> inner]

\* err != nil
Failed(e) == e.msg # <<>>

\* What the callers of Make pass as a target.
TargetArgs == Names \cup {""}

\* The argument lists of BuildMultiple(targets ...string).
TargetLists == UNION {[1..n -> TargetArgs] : n \in 0..MaxCalls}

\* Make.Build passing the empty target on to the Builder.
MakeTarget_NoDefault(target) == target

\* if target == "" { target = m.makefile.FirstRule }
MakeTarget(target) == IF target = "" THEN makefile.FirstRule ELSE target

\* A call of Make as makeCall records it: the method, its arguments, the
\* argument being built, the number of Builder calls made before it,
\* whether it has returned, and the error it returned.
MakeCall(op, targets, k, pc, e) ==
    [op |-> op, targets |-> targets, k |-> k, pc |-> pc, err |-> e,
     base |-> IF makeCall.pc = "building" THEN makeCall.base ELSE Len(history)]

\* m.Build(targets[k]) up to the first recursive call of the Builder; the
\* error of Make.Build is returned by Build as it is, by BuildMultiple wrapped.
StartTarget(op, targets, k) ==
    LET target == MakeTarget(targets[k]) IN
    IF target = ""
    THEN /\ makeCall' = MakeCall(op, targets, k, "returned",
                            IF op = "Build" THEN NoTargetsErr
                            ELSE FailedToBuildErr(targets[k], NoTargetsErr))
         /\ UNCHANGED <<parser, expansion, prior, makefile, built, building, stack,
                        err, fs, history, trace>>
    ELSE /\ BuildCall(target)
         /\ makeCall' = MakeCall(op, targets, k, "building", NilErr)

\* Make.Build(target) is called.
MakeBuild(target) ==
    /\ stack = <<>>
    /\ makeCall.pc # "building"
    /\ Len(history) < MaxCalls
    /\ StartTarget("Build", <<target>>, 1)

\* Make.BuildMultiple(targets...) is called.
BuildMultiple(targets) ==
    /\ stack = <<>>
    /\ makeCall.pc # "building"
    /\ Len(history) + Len(targets) <= MaxCalls
    /\ IF targets = <<>>
       THEN /\ makeCall' = MakeCall("BuildMultiple", targets, 0, "returned", NilErr)
            /\ UNCHANGED <<parser, expansion, prior, makefile, built, building, stack,
                           err, fs, history, trace>>
       ELSE StartTarget("BuildMultiple", targets, 1)

\* MakeReturn with BuildMultiple going on to the next target after an error.
MakeReturn_KeepGoing ==
    /\ makeCall.pc = "building"
    /\ stack = <<>>
    /\ IF makeCall.k < Len(makeCall.targets) /\ makeCall.op = "BuildMultiple"
       THEN StartTarget(makeCall.op, makeCall.targets, makeCall.k + 1)
       ELSE /\ makeCall' = [makeCall EXCEPT !.pc = "returned", !.err = err]
            /\ UNCHANGED <<parser, expansion, prior, makefile, built, building, stack,
                           err, fs, history, trace>>

\* The Builder has returned err to Make.Build: Build returns it; the loop
\* of BuildMultiple returns it wrapped, or goes on to the next target, or ends.
MakeReturn ==
    /\ makeCall.pc = "building"
    /\ stack = <<>>
    /\ IF makeCall.op = "BuildMultiple" /\ ~Failed(err)
          /\ makeCall.k < Len(makeCall.targets)
       THEN StartTarget(makeCall.op, makeCall.targets, makeCall.k + 1)
       ELSE /\ makeCall' =
                  [makeCall EXCEPT
                      !.pc = "returned",
                      !.err = IF makeCall.op = "BuildMultiple" /\ Failed(err)
                              THEN FailedToBuildErr(makeCall.targets[makeCall.k], err)
                              ELSE err]
            /\ UNCHANGED <<parser, expansion, prior, makefile, built, building, stack,
                           err, fs, history, trace>>

NextMake ==
    \/ \E target \in TargetArgs : MakeBuild(target)
    \/ \E targets \in TargetLists : BuildMultiple(targets)
    \/ MakeReturn
    \/ BuildDependency
    \/ CheckRebuild
    \/ ExecuteCommand
    \/ ReturnErr

\* NewFromMakefile: a Make over a parsed Makefile and a new Builder, used
\* for one session; the files are those the commands leave behind.
MakeInit ==
    /\ Init
    /\ makefile \in {MkDiamond, MkCycle, MkSelf, MkEmpty}

SpecMake == MakeInit /\ [][NextMake]_vars

\* ------------------------------------------- the expander called on a text
XName == <<"X">>

YName == <<"Y">>

\* The map that holds the given <<name, value>> pairs.
MapOf(pairs) ==
    [n \in {pr[1] : pr \in pairs} |-> (CHOOSE pr \in pairs : pr[1] = n)[2]]

\* Leaving a name out, or giving it one of these values.
Bindings(name, values) == {{}} \cup {{<<name, v>>} : v \in values}

\* The texts made of at most n of the given parts.
RECURSIVE TextsOf(_, _)
TextsOf(parts, n) ==
    IF n = 0 THEN {<<>>}
    ELSE LET shorter == TextsOf(parts, n - 1)
         IN shorter \cup {t \o part : t \in shorter, part \in parts}

\* References in both syntaxes, delimiters without partner, other text.
RefParts ==
    { <<"$", "(", "X", ")">>, <<"$", "{", "X", "}">>,
      <<"$", "(", "Y", ")">>, <<"$", "{", "Y", "}">>,
      <<"$", "(">>, <<"$", "{">>, <<")">>, <<"}">>, <<"X">>, <<"-">> }

\* Makefile.Variables: X and Y unbound or bound, also to the empty string,
\* to a value that holds a reference and to a closing delimiter.
RefVariables ==
    { MapOf(xs \cup ys) :
        xs \in Bindings(XName, {<<>>, <<"v">>, <<"$", "{", "Y", "}">>,
                                <<"$", "(", "Y", ")">>}),
        ys \in Bindings(YName, {<<"w">>, <<"}">>}) }

\* The process environment: X set or not.
RefEnvironments == { MapOf(xs) : xs \in Bindings(XName, {<<"e">>}) }

\* The Builder is not used while the expander is looked at.
BuilderUnused ==
    /\ built = [n \in Names |-> FALSE]
    /\ building = [n \in Names |-> FALSE]
    /\ stack = <<>>
    /\ err = NilErr
    /\ history = <<>>
    /\ trace = <<>>
    /\ prior = NoPrior
    /\ makeCall = NoMakeCall

ExpandInit ==
    /\ BuilderUnused
    /\ parser = NoParser
    /\ makefile = MkEmpty
    /\ fs = [n \in Names |-> 0]
    /\ expansion \in
          { [pc |-> "call", text |-> t, variables |-> v, env |-> e,
             autoVars |-> <<>>, out |-> <<>>] :
               t \in TextsOf(RefParts, MaxParts),
               v \in RefVariables,
               e \in RefEnvironments }

\* Makefile.ExpandVariables(text)
ExpandVariables ==
    /\ expansion.pc = "call"
    /\ expansion' = [expansion EXCEPT
                        !.pc = "done",
                        !.out = expandVariables(expansion.text, expansion.variables)]
    /\ UNCHANGED <<makeCall, parser, makefile, built, building, stack, err, fs, history,
                   trace, prior>>

NextExpand == ExpandVariables

SpecExpand == ExpandInit /\ [][NextExpand]_vars

Expanded == expansion.pc = "done"

\* ------------------------------- the expander called with a rule's context
\* A name of the Builder as a text: one run of ordinary characters.
AsText(name) == IF name = "" THEN <<>> ELSE <<name>>

\* The AutomaticVariables as the expander reads them.
AsContext(av) ==
    [Target |-> AsText(av.Target),
     FirstPrereq |-> AsText(av.FirstPrereq),
     AllPrereqs |-> [k \in DOMAIN av.AllPrereqs |-> AsText(av.AllPrereqs[k])],
     NewerPrereqs |-> [k \in DOMAIN av.NewerPrereqs |-> AsText(av.NewerPrereqs[k])]]

\* What Build hands to the commands of the target's rule.
RuleContext(target) ==
    AsContext(createAutomaticVariables(target, makefile.Rules[target].Dependencies))

\* An AutomaticVariables whose names hold variable references.
ReferenceContext ==
    [Target |-> <<"$", "(", "X", ")">>,
     FirstPrereq |-> <<"$", "{", "X", "}">>,
     AllPrereqs |-> << <<"$", "{", "X", "}">>, <<"b">> >>,
     NewerPrereqs |-> << <<"b">> >>]

\* The four tokens, a reference in each syntax, a "$" alone, other text.
AutoParts ==
    { <<"$", "@">>, <<"$", "<">>, <<"$", "^">>, <<"$", "?">>,
      <<"$", "(", "X", ")">>, <<"$", "{", "X", "}">>, <<"$">>, <<" ">> }

\* Makefile.Variables: X unbound, bound to plain text, bound to a token.
AutoVariables ==
    { MapOf(xs) : xs \in Bindings(XName, {<<"v">>, <<"$", "@">>}) }

\* The rules whose commands are expanded: a: b c of MkLink, c of MkDiamond,
\* which has no prerequisites.
AutoRules == {<<MkLink, "a">>, <<MkDiamond, "c">>}

AutoInit ==
    /\ BuilderUnused
    /\ parser = NoParser
    /\ \E r \in AutoRules :
          /\ makefile = r[1]
          /\ fs \in {f \in [Names -> Times] :
                        /\ f["a"] <= 1 /\ f["b"] >= 1 /\ f["c"] >= 1
                        /\ r[2] = "c" => f = [n \in Names |-> 1]}
          /\ expansion \in
                { [pc |-> "call", text |-> t, variables |-> v,
                   env |-> MapOf({}), autoVars |-> c, out |-> <<>>] :
                     t \in TextsOf(AutoParts, MaxParts),
                     v \in AutoVariables,
                     c \in {<<RuleContext(r[2])>>, <<ReferenceContext>>, <<>>} }

\* Makefile.ExpandVariablesWithContext(text, autoVars)
ExpandVariablesWithContext ==
    /\ expansion.pc = "call"
    /\ expansion' = [expansion EXCEPT
                        !.pc = "done",
                        !.out = expandVariablesWithContext(expansion.text,
                                    expansion.variables, expansion.autoVars)]
    /\ UNCHANGED <<makeCall, parser, makefile, built, building, stack, err, fs, history,
                   trace, prior>>

NextAuto == ExpandVariablesWithContext

SpecAuto == AutoInit /\ [][NextAuto]_vars

\* The three-tier lookup of a name: variable store, environment, empty string.
Lookup(name) ==
    IF name \in DOMAIN expansion.variables THEN expansion.variables[name]
    ELSE IF name \in DOMAIN expansion.env THEN expansion.env[name]
    ELSE <<>>

ParenX == <<"$", "(", "X", ")">>

BraceX == <<"$", "{", "X", "}">>

\* C15 as stated: Expand("$(X)") returns the local binding of X if X is bound
\* in the variable store (also when it is bound to the empty string, and also
\* when the environment sets X too), otherwise the environment value of X,
\* otherwise the empty string.
C15_LookupPrecedence ==
    (Expanded /\ expansion.text = ParenX) => expansion.out = Lookup(XName)

\* The texts in which every delimiter belongs to a complete reference.
WholeParts ==
    { <<"$", "(", "X", ")">>, <<"$", "{", "X", "}">>,
      <<"$", "(", "Y", ")">>, <<"$", "{", "Y", "}">>, <<"X">>, <<"-">> }

\* The text with each reference, in either syntax, replaced by the lookup of
\* its name and every other atom kept.
RECURSIVE Rewritten(_)
Rewritten(text) ==
    IF text = <<>> THEN <<>>
    ELSE IF Len(text) >= 4 /\ text[1] = "$"
            /\ <<text[2], text[4]>> \in {<<"(", ")">>, <<"{", "}">>}
    THEN Lookup(<<text[3]>>) \o Rewritten(SubSeq(text, 5, Len(text)))
    ELSE <<Head(text)>> \o Rewritten(Tail(text))

\* C16 as stated: Expand(text) replaces every occurrence of $(NAME) and of
\* ${NAME} by the lookup of NAME, the same for both syntaxes and for every
\* occurrence, by the empty string when the name resolves nowhere, and leaves
\* the text outside the references unchanged.
C16_EveryReferenceRewritten ==
    (Expanded /\ expansion.text \in TextsOf(WholeParts, MaxParts)) =>
        expansion.out = Rewritten(expansion.text)

\* The value holds a variable reference.
HoldsReference(value) ==
    \E k \in 1..Len(value) - 1 : value[k] = "$" /\ value[k + 1] \in {"(", "{"}

\* C17 as stated: a substituted value that itself contains a variable
\* reference, $(...) or ${...}, is inserted verbatim and appears unchanged in
\* the output of the same Expand call.
C17_NoReExpansion ==
    (/\ Expanded
     /\ expansion.text \in {ParenX, BraceX}
     /\ XName \in DOMAIN expansion.variables
     /\ HoldsReference(expansion.variables[XName]))
        => expansion.out = expansion.variables[XName]

\* The positions of text at which "$" and then open stand.
Occurrences(text, open) ==
    {k \in 1..Len(text) - 1 : text[k] = "$" /\ text[k + 1] = open}

\* The positions of a "$" open with no close after it that do not lie
\* within a reference of the other syntax.
Unmatched(text, open, close, otherOpen, otherClose) ==
    {k \in Occurrences(text, open) :
        /\ FirstIndex(text, close, k + 2) = 0
        /\ \A k0 \in Occurrences(text, otherOpen) :
              k0 < k => FirstIndex(text, otherClose, k0 + 2) < k}

\* C18 as stated: a "$(" with no closing ")" after it, and likewise a "${"
\* with no closing "}" after it, remains in the output of Expand.
C18_UnmatchedLeftUntouched ==
    Expanded =>
        /\ Cardinality(Occurrences(expansion.out, "(")) >=
              Cardinality(Unmatched(expansion.text, "(", ")", "{", "}"))
        /\ Cardinality(Occurrences(expansion.out, "{")) >=
              Cardinality(Unmatched(expansion.text, "{", "}", "(", ")"))

\* The names one after the other, a single space between two of them.
RECURSIVE Spaced(_)
Spaced(names) ==
    IF Len(names) = 0 THEN <<>>
    ELSE IF Len(names) = 1 THEN names[1]
    ELSE Spaced(SubSeq(names, 1, Len(names) - 1)) \o <<" ">> \o Last(names)

\* The text with every token replaced as C19 says and all else kept.
RECURSIVE TokensReplaced(_, _)
TokensReplaced(text, av) ==
    IF text = <<>> THEN <<>>
    ELSE IF Len(text) >= 2 /\ text[1] = "$" /\ text[2] \in {"@", "<", "^", "?"}
    THEN (CASE text[2] = "@" -> av.Target
            [] text[2] = "<" -> IF av.AllPrereqs = <<>> THEN <<>> ELSE av.AllPrereqs[1]
            [] text[2] = "^" -> Spaced(av.AllPrereqs)
            [] text[2] = "?" -> Spaced(av.NewerPrereqs))
         \o TokensReplaced(SubSeq(text, 3, Len(text)), av)
    ELSE <<Head(text)>> \o TokensReplaced(Tail(text), av)

\* The context of the rule a: b c while no file a exists.
ExampleContext ==
    /\ makefile = MkLink
    /\ fs["a"] = 0
    /\ expansion.autoVars = <<RuleContext("a")>>

\* C19: ExpandVariablesWithContext with a context replaces every $@ by the
\* target, every $< by the first prerequisite (by nothing when there is no
\* prerequisite), every $^ by all prerequisites with single spaces between
\* them in their order, every $? by the newer prerequisites joined the same
\* way, and hands the result to the expansion of $(NAME) and ${NAME}; for the
\* rule a: b c and no file a the four tokens give a, b, b c and b c.
C19_AutomaticTokens ==
    (Expanded /\ expansion.autoVars # <<>>) =>
        /\ expansion.out =
              expandVariables(TokensReplaced(expansion.text, expansion.autoVars[1]),
                              expansion.variables)
        /\ ExampleContext =>
              /\ expansion.text = <<"$", "@">> => expansion.out = <<"a">>
              /\ expansion.text = <<"$", "<">> => expansion.out = <<"b">>
              /\ expansion.text = <<"$", "^">> => expansion.out = <<"b", " ", "c">>
              /\ expansion.text = <<"$", "?">> => expansion.out = <<"b", " ", "c">>

\* "$^ $?" was expanded for the rule a: b c while only c is newer than a.
C19_Witness ==
    /\ Expanded
    /\ makefile = MkLink
    /\ expansion.autoVars = <<RuleContext("a")>>
    /\ expansion.autoVars[1].NewerPrereqs = << <<"c">> >>
    /\ expansion.text = <<"$", "^", " ", "$", "?">>
    /\ expansion.out = <<"b", " ", "c", " ", "c">>

\* C21: without a context (nil), ExpandVariablesWithContext and
\* ExpandVariables leave $@, $<, $^ and $? in the text as they are and
\* still replace the references $(NAME) and ${NAME} by their lookup.
C21_NilContextKeepsTokens ==
    (Expanded /\ expansion.autoVars = <<>>) =>
        /\ expansion.out = Rewritten(expansion.text)
        /\ expandVariables(expansion.text, expansion.variables) = expansion.out
        /\ \A t \in AutoTokens :
              Cardinality(Occurrences(expansion.out, t)) >=
                 Cardinality(Occurrences(expansion.text, t))

\* "$@$(X)$<" was expanded without a context while X was bound to v.
C21_Witness ==
    /\ Expanded
    /\ expansion.autoVars = <<>>
    /\ expansion.text = <<"$", "@", "$", "(", "X", ")", "$", "<">>
    /\ expansion.variables = MapOf({<<XName, <<"v">>>>})
    /\ expansion.out = <<"$", "@", "v", "$", "<">>

\* X is bound to one of the four tokens.
TokenValued ==
    /\ XName \in DOMAIN expansion.variables
    /\ Len(expansion.variables[XName]) = 2
    /\ expansion.variables[XName][1] = "$"
    /\ expansion.variables[XName][2] \in AutoTokens

\* C22: with a context, a token that enters the text as the value of $(X) or
\* ${X} stands literally in the result, while the same token written in the
\* text is replaced from the context.
C22_TokenInValueStaysLiteral ==
    (Expanded /\ expansion.autoVars # <<>> /\ TokenValued) =>
        LET value == expansion.variables[XName]
            av == expansion.autoVars[1]
        IN /\ expansion.text \in {ParenX, BraceX} => expansion.out = value
           /\ \A ref \in {ParenX, BraceX} :
                 (expansion.text = value \o ref /\ av # ReferenceContext) =>
                     expansion.out = TokensReplaced(value, av) \o value

\* "$@${X}" was expanded for the rule a: b c while X was bound to "$@".
C22_Witness ==
    /\ Expanded
    /\ makefile = MkLink
    /\ expansion.autoVars = <<RuleContext("a")>>
    /\ expansion.variables = MapOf({<<XName, <<"$", "@">>>>})
    /\ expansion.text = <<"$", "@", "$", "{", "X", "}">>
    /\ expansion.out = <<"a", "$", "@">>

\* T has a file, a prerequisite of T has none, and no prerequisite of T that
\* has a file is newer than T.
OnlyMissingPrerequisites(T) ==
    /\ fs[T] # 0
    /\ \E d \in Range(Rules[T].Dependencies) : fs[d] = 0
    /\ \A d \in Range(Rules[T].Dependencies) : fs[d] = 0 \/ fs[d] <= fs[T]

\* C26: a target whose file exists is not rebuilt on account of a
\* prerequisite without file: when the prerequisites of T are resolved, T has
\* a file and every prerequisite either has no file or is not newer, Build
\* returns with T built and runs no command, also when the prerequisite
\* without file has a rule whose commands ran in the same Build call.
C26_MissingPrerequisiteSkipped ==
    [][(AtStalenessCheck /\ OnlyMissingPrerequisites(Top.target)) =>
          /\ stack' = Advance(Callers(stack))
          /\ trace' = trace
          /\ built'[Top.target]
          /\ err' = NilErr
      ]_vars

\* Within one top-level Build the commands of d ran and left no file d;
\* then T, which lists d and has a file, returned to its caller built
\* without a command of its own.
C26_Witness ==
    /\ Running
    /\ Top.phase = "deps"
    /\ Top.i > 1
    /\ LET T == Rules[Top.target].Dependencies[Top.i - 1]
       IN /\ HasRule(T)
          /\ built[T]
          /\ OnlyMissingPrerequisites(T)
          /\ trace # <<>>
          /\ Last(trace).call = Len(history)
          /\ Last(trace).target \in Range(Rules[T].Dependencies)
          /\ fs[Last(trace).target] = 0
          /\ \A p \in DOMAIN trace : trace[p].target # T

\* C27: the context of a build step is made when the prerequisites of the
\* target are resolved and its commands are about to run, from the
\* filesystem as it is then; every command of the rule is expanded with that
\* context, which stays the same from one command to the next whatever the
\* commands do to the filesystem.
C27_ContextCreatedOnce ==
    [][ /\ (AtStalenessCheck /\ Len(stack') = Len(stack)
               /\ stack'[Len(stack)].phase = "cmds") =>
              stack'[Len(stack)].autoVars =
                 createAutomaticVariables(Top.target, Rules[Top.target].Dependencies)
        /\ (Running /\ Top.phase = "cmds") =>
              /\ trace'[Len(trace')].autoVars = Top.autoVars
              /\ Len(stack') = Len(stack) =>
                    stack'[Len(stack)].autoVars = Top.autoVars
        /\ (Len(stack') >= Len(stack) /\ Len(stack) > 0 /\ Top.phase = "cmds") =>
              stack'[Len(stack)].autoVars = Top.autoVars
      ]_vars

\* The first command of a rule ran with the context made before it and
\* changed the files so that a context made now would differ in $?; the
\* second command is about to run with the context of the first.
C27_Witness ==
    /\ Running
    /\ Top.phase = "cmds"
    /\ Top.j = 2
    /\ trace # <<>>
    /\ Last(trace).target = Top.target
    /\ Last(trace).j = 1
    /\ Last(trace).autoVars = Top.autoVars
    /\ Top.autoVars.NewerPrereqs #
          getNewerPrerequisites(Top.target, Rules[Top.target].Dependencies)

\* C30: no command of a target from which a prerequisite cycle can be
\* reached is ever run, whatever Build and Reset calls are made: no such
\* command is in the record of the session, and none is added to it.
C30_NoCommandOnCyclePath ==
    [][ /\ \A p \in DOMAIN trace : ~CycleReachable(trace[p].target)
        /\ Len(trace') > Len(trace) => ~CycleReachable(Top.target)
      ]_vars

\* Build returned CycleDetected after the walk had run, in the same call,
\* the commands of a prerequisite that leads to no cycle.
C30_Witness ==
    /\ Returned
    /\ Kind(err) = "CycleDetected"
    /\ OnCycle(err.msg[2])
    /\ \E p \in DOMAIN trace :
          /\ trace[p].call = Len(history)
          /\ trace[p].result = RunOk
          /\ trace[p].target \in ReachableFrom(Last(history))
          /\ ~CycleReachable(trace[p].target)

\* A call of Make starts in this step.
MakeCalled == makeCall.pc # "building" /\ makeCall' # makeCall

\* The Builder is left as it is.
BuilderUntouched ==
    UNCHANGED <<makefile, built, building, stack, err, fs, history, trace>>

\* C24: Make.Build("") does what Builder.Build(FirstRule) does, as
\* Make.Build(FirstRule) does, and returns what the Builder returns; with
\* an empty target and no default target it returns "no targets found in
\* Makefile" at once and leaves the Builder as it is.
C24_EmptyTargetBuildsDefault ==
    [][ /\ (MakeCalled /\ makeCall'.op = "Build") =>
              LET target == makeCall'.targets[1] IN
              IF target = "" /\ makefile.FirstRule = ""
              THEN /\ makeCall'.pc = "returned"
                   /\ makeCall'.err = NoTargetsErr
                   /\ BuilderUntouched
              ELSE /\ makeCall'.pc = "building"
                   /\ BuildCall(IF target = "" THEN makefile.FirstRule ELSE target)
        /\ (makeCall.pc = "building" /\ makeCall.op = "Build"
               /\ makeCall'.pc = "returned") =>
              /\ makeCall'.err = err
              /\ BuilderUntouched
      ]_vars

\* Make.Build("") has returned nil after the commands of a prerequisite of
\* the default target ran and the default target was built.
C24_Witness ==
    /\ makeCall.pc = "returned"
    /\ makeCall.op = "Build"
    /\ makeCall.targets = <<"">>
    /\ ~Failed(makeCall.err)
    /\ history = <<makefile.FirstRule>>
    /\ built[makefile.FirstRule]
    /\ trace # <<>>

\* Make.Build(target) is called within BuildMultiple in this step: with no
\* target to build it fails at once, else the Builder is called.
Attempted(target) ==
    LET built_target == IF target = "" THEN makefile.FirstRule ELSE target IN
    IF built_target = ""
    THEN /\ makeCall'.pc = "returned"
         /\ makeCall'.err.msg[1] = FailedToBuildMsg
         /\ makeCall'.err.msg[2] = target
         /\ makeCall'.err.wrapped = NoTargetsErr
         /\ BuilderUntouched
    ELSE /\ makeCall'.pc = "building"
         /\ BuildCall(built_target)

\* C25: BuildMultiple builds its targets one after the other, in the given
\* order, with the same Builder; the first target that fails ends it with an
\* error that names this target and wraps the error of its build, and no
\* later target is attempted: the Builder has been called for the failed
\* target and the ones before it only, and no command has run since.
C25_BuildMultipleStopsAtFailure ==
    [][ /\ (MakeCalled /\ makeCall'.op = "BuildMultiple") =>
              IF makeCall'.targets = <<>>
              THEN /\ makeCall'.pc = "returned"
                   /\ ~Failed(makeCall'.err)
                   /\ BuilderUntouched
              ELSE /\ makeCall'.k = 1
                   /\ Attempted(makeCall'.targets[1])
        /\ (makeCall.pc = "building" /\ stack # <<>>) => makeCall' = makeCall
        /\ (makeCall.pc = "building" /\ makeCall.op = "BuildMultiple"
               /\ stack = <<>> /\ makeCall' # makeCall) =>
              /\ makeCall'.targets = makeCall.targets
              /\ IF Failed(err)
                 THEN /\ makeCall'.pc = "returned"
                      /\ makeCall'.k = makeCall.k
                      /\ makeCall'.err.msg[1] = FailedToBuildMsg
                      /\ makeCall'.err.msg[2] = makeCall.targets[makeCall.k]
                      /\ makeCall'.err.wrapped = err
                      /\ BuilderUntouched
                 ELSE IF makeCall.k < Len(makeCall.targets)
                 THEN /\ makeCall'.k = makeCall.k + 1
                      /\ Attempted(makeCall.targets[makeCall.k + 1])
                 ELSE /\ makeCall'.pc = "returned"
                      /\ ~Failed(makeCall'.err)
                      /\ BuilderUntouched
        /\ (makeCall.pc = "returned" /\ makeCall.op = "BuildMultiple"
               /\ Failed(makeCall.err)) =>
              /\ Len(history) <= makeCall.base + makeCall.k
              /\ \A p \in DOMAIN trace : trace[p].call <= makeCall.base + makeCall.k
              /\ makeCall' = makeCall => BuilderUntouched
      ]_vars

\* BuildMultiple(t1, t2) has returned the error of t1, a command of which
\* failed; t2, a different target with commands, was not built and none of
\* its commands ran.
C25_Witness ==
    /\ makeCall.pc = "returned"
    /\ makeCall.op = "BuildMultiple"
    /\ Len(makeCall.targets) = 2
    /\ makeCall.k = 1
    /\ Failed(makeCall.err)
    /\ Kind(makeCall.err.wrapped) = "CommandFailed"
    /\ makeCall.err.msg[2] = makeCall.targets[1]
    /\ history = <<makeCall.targets[1]>>
    /\ LET t2 == makeCall.targets[2]
       IN /\ t2 # "" /\ t2 # makeCall.targets[1]
          /\ HasRule(t2)
          /\ Rules[t2].Commands # <<>>
          /\ ~built[t2]
          /\ \A p \in DOMAIN trace : trace[p].target # t2

\* ----------------------------------------------------------------- parser
\* A line is a text; the atoms the parser looks at are the tab, the space,
\* "#", ":" and "=", besides those of the expander.
Whitespace == {" ", "\t"}

RECURSIVE TrimLeft(_)
TrimLeft(text) ==
    IF text # <<>> /\ Head(text) \in Whitespace THEN TrimLeft(Tail(text)) ELSE text

RECURSIVE TrimRight(_)
TrimRight(text) ==
    IF text # <<>> /\ text[Len(text)] \in Whitespace
    THEN TrimRight(SubSeq(text, 1, Len(text) - 1))
    ELSE text

\* strings.TrimSpace
TrimSpace(text) == TrimRight(TrimLeft(text))

\* strings.HasPrefix for a prefix of one atom
HasPrefix(text, prefix) == text # <<>> /\ text[1] = prefix

\* strings.TrimPrefix for a prefix of one atom
TrimPrefix(text, prefix) == IF HasPrefix(text, prefix) THEN Tail(text) ELSE text

\* strings.Contains for one atom
Contains(text, ch) == FirstIndex(text, ch, 1) # 0

\* strings.ContainsAny
ContainsAny(text, chars) == \E k \in DOMAIN text : text[k] \in chars

\* strings.SplitN(text, sep, 2): the text before the first sep and the text
\* behind it, or the text alone when it holds no sep.
SplitN2(text, sep) ==
    LET k == FirstIndex(text, sep, 1) IN
    IF k = 0 THEN <<text>>
    ELSE <<SubSeq(text, 1, k - 1), SubSeq(text, k + 1, Len(text))>>

\* strings.Fields: the runs of atoms other than whitespace.
RECURSIVE Fields(_)
Fields(text) ==
    LET t == TrimLeft(text)
        ws == {k \in DOMAIN t : t[k] \in Whitespace}
        end == IF ws = {} THEN Len(t) + 1
               ELSE CHOOSE k \in ws : \A k2 \in ws : k <= k2
    IN IF t = <<>> THEN <<>>
       ELSE <<SubSeq(t, 1, end - 1)>> \o Fields(SubSeq(t, end, Len(t)))

\* parseVariableAssignment
parseVariableAssignment(line) ==
    LET parts == SplitN2(line, "=") IN
    IF Len(parts) # 2
    THEN [name |-> <<>>, value |-> <<>>, isAssignment |-> FALSE]
    ELSE LET name == TrimSpace(parts[1])
             value == TrimSpace(parts[2])
         IN IF name = <<>> \/ ContainsAny(name, {" ", "\t", ":"})
            THEN [name |-> <<>>, value |-> <<>>, isAssignment |-> FALSE]
            ELSE [name |-> name, value |-> value, isAssignment |-> TRUE]

\* types.NewMakefile
NewMakefile ==
    [Rules |-> MapOf({}), FirstRule |-> <<>>, Variables |-> MapOf({})]

\* m[key] = value
Put(m, key, value) ==
    [k \in DOMAIN m \cup {key} |-> IF k = key THEN value ELSE m[k]]

\* if strings.TrimSpace(line) == "" || strings.HasPrefix(strings.TrimSpace(line), "#")
IsSkipped(line) ==
    TrimSpace(line) = <<>> \/ HasPrefix(TrimSpace(line), "#")

\* The command put in front of the commands of the rule.
AppendCommand_InFront(mf, target, command) ==
    [mf EXCEPT !.Rules[target].Commands = <<command>> \o @]

\* currentRule.Commands = append(currentRule.Commands, expandedCommand)
AppendCommand(mf, target, command) ==
    [mf EXCEPT !.Rules[target].Commands = Append(@, command)]

\* SetVariable keeping the value of a name that is already bound.
SetVariable_KeepFirst(mf, name, value) ==
    IF name \in DOMAIN mf.Variables THEN mf
    ELSE [mf EXCEPT !.Variables = Put(@, name, value)]

\* makefile.SetVariable(name, expandedValue)
SetVariable(mf, name, value) ==
    [mf EXCEPT !.Variables = Put(@, name, value)]

\* AddRule keeping the commands of the rule the map holds for the target.
AddRule_KeepCommands(mf, target, deps) ==
    [mf EXCEPT !.FirstRule = IF @ = <<>> THEN target ELSE @,
               !.Rules = Put(@, target,
                             Rule(target, deps,
                                  IF target \in DOMAIN mf.Rules
                                  THEN mf.Rules[target].Commands ELSE <<>>))]

\* The rule header: the new Rule, the default target, the entry of the map.
AddRule(mf, target, deps) ==
    [mf EXCEPT !.FirstRule = IF @ = <<>> THEN target ELSE @,
               !.Rules = Put(@, target, Rule(target, deps, <<>>))]

\* One pass of the loop over scanner.Scan() for the given line: the parser
\* with the lines it has read, its Makefile, its current rule (<<>> is nil,
\* <<target>> the rule of the map under target) and the targets of the
\* headers it has parsed.
Scanned(p, line) ==
    LET mf == p.makefile
        read == [p EXCEPT !.lines = Append(@, line)]
        assignment == parseVariableAssignment(line)
    IN IF IsSkipped(line) THEN read
       ELSE IF HasPrefix(line, "\t")
       THEN IF p.currentRule # <<>>
            THEN [read EXCEPT !.makefile =
                     AppendCommand(mf, p.currentRule[1],
                         expandVariables(TrimPrefix(line, "\t"), mf.Variables))]
            ELSE read
       ELSE IF assignment.isAssignment
       THEN [read EXCEPT !.makefile =
                SetVariable(mf, assignment.name,
                            expandVariables(assignment.value, mf.Variables))]
       ELSE IF Contains(line, ":")
       THEN LET parts == SplitN2(line, ":")
                target == TrimSpace(parts[1])
                deps == Fields(TrimSpace(parts[2]))
                expandedTarget == expandVariables(target, mf.Variables)
                expandedDeps == [k \in DOMAIN deps |->
                                    expandVariables(deps[k], mf.Variables)]
            IN [read EXCEPT !.makefile = AddRule(mf, expandedTarget, expandedDeps),
                            !.currentRule = <<expandedTarget>>,
                            !.headers = Append(@, expandedTarget)]
       ELSE read

\* The lines a Makefile is made of: blank lines, comments, rule headers,
\* commands, assignments and a line that is none of these; references in
\* a target, a prerequisite, a command and a value.
Lines ==
    { <<>>, <<"\t">>,
      <<"#", "c">>, <<"\t", "#", "c">>,
      <<"a", ":", " ", "b">>, <<"a", ":", " ", "c">>, <<"b", ":">>,
      <<"b", ":", " ", "$", "{", "X", "}">>,
      <<":", "b">>, <<"$", "(", "X", ")", ":">>,
      <<"\t", "cc">>, <<"\t", "ld", " ", "$", "(", "X", ")">>,
      <<"X", "=", "a">>, <<"X", "=", "c">>, <<"Y", "=", "$", "(", "X", ")">>,
      <<"cc">> }

\* ParseMakefileFromReader is called: the Makefile is new, no line is read.
ParseInit ==
    /\ BuilderUnused
    /\ makefile = MkEmpty
    /\ fs = [n \in Names |-> 0]
    /\ expansion \in {[pc |-> "none", env |-> e] : e \in RefEnvironments}
    /\ parser = [pc |-> "scan", lines |-> <<>>, makefile |-> NewMakefile,
                 currentRule |-> <<>>, headers |-> <<>>]

\* scanner.Scan() returns true for a reader that holds the given lines: the
\* next line is handled.
ScanLine(lines) ==
    /\ parser.pc = "scan"
    /\ Len(parser.lines) < MaxLines
    /\ \E line \in lines : parser' = Scanned(parser, line)
    /\ UNCHANGED <<makefile, built, building, stack, err, fs, history, trace, prior,
                   expansion, makeCall>>

\* scanner.Scan() returns true: the next line of the reader is handled.
ParseLine == ScanLine(Lines)

\* scanner.Scan() returns false: return makefile, scanner.Err()
ParseReturn ==
    /\ parser.pc = "scan"
    /\ parser' = [parser EXCEPT !.pc = "done"]
    /\ UNCHANGED <<makefile, built, building, stack, err, fs, history, trace, prior,
                   expansion, makeCall>>

NextParse == ParseLine \/ ParseReturn

SpecParse == ParseInit /\ [][NextParse]_vars

\* ------------------------------------- the commands of a parsed Makefile
\* The lines of Makefiles whose commands hold references: to a name bound
\* to an automatic token, to a name bound later, and, behind a name bound
\* to "$", the text of a reference that the parser does not read as one.
CommandLines ==
    { <<"X", "=", "$", "@">>, <<"Z", "=", "$">>, <<"X", "=", "c">>,
      <<"a", ":", " ", "b">>,
      <<"\t", "ld", " ", "$", "(", "X", ")">>,
      <<"\t", "ld", " ", "$", "(", "Z", ")", "(", "X", ")">>,
      <<"\t", "cc", " ", "$", "<">> }

\* scanner.Scan() returns true for one of these Makefiles.
ParseCommandLine == ScanLine(CommandLines)

\* The contexts createAutomaticVariables can make for the rule when its
\* commands are run: all prerequisites are newer when the target has no
\* file, and at least one is when it has.
ParsedContexts(rule) ==
    LET deps == rule.Dependencies
    IN { [Target |-> rule.Target,
          FirstPrereq |-> IF Len(deps) > 0 THEN deps[1] ELSE <<>>,
          AllPrereqs |-> deps,
          NewerPrereqs |-> newer] :
            newer \in {deps} \cup {<<deps[k]>> : k \in DOMAIN deps} }

\* executeCommandWithContext handing the stored command to the shell as it is.
executeCommandWithContext_AsStored(command, variables, autoVars) == command

\* executeCommandWithContext: the text that is handed to sh -c.
executeCommandWithContext(command, variables, autoVars) ==
    expandVariablesWithContext(command, variables, autoVars)

\* The Builder runs a command of a rule of the parsed Makefile.
ExecuteParsed ==
    /\ parser.pc = "done"
    /\ expansion.pc = "none"
    /\ \E t \in DOMAIN parser.makefile.Rules :
          \E j \in DOMAIN parser.makefile.Rules[t].Commands,
             context \in ParsedContexts(parser.makefile.Rules[t]) :
                expansion' =
                   [pc |-> "done",
                    text |-> parser.makefile.Rules[t].Commands[j],
                    variables |-> parser.makefile.Variables,
                    env |-> expansion.env,
                    autoVars |-> <<context>>,
                    out |-> executeCommandWithContext(
                                parser.makefile.Rules[t].Commands[j],
                                parser.makefile.Variables, <<context>>)]
    /\ UNCHANGED <<makefile, built, building, stack, err, fs, history, trace, prior,
                   makeCall, parser>>

NextParseBuild == ParseCommandLine \/ ParseReturn \/ ExecuteParsed

SpecParseBuild == ParseInit /\ [][NextParseBuild]_vars

\* The parser reads a line in this step.
LineRead == Len(parser'.lines) > Len(parser.lines)

\* The line has no atom but blanks, or its first other atom is "#".
BlankOrComment(line) ==
    LET nonBlank == SelectSeq(line, LAMBDA c : c \notin {" ", "\t"})
    IN nonBlank = <<>> \/ nonBlank[1] = "#"

\* C28: a blank line and a line whose first non-blank character is # change
\* neither the Makefile nor the current rule; any other line that starts
\* with a tab is appended, without the tab and expanded, to the commands of
\* the rule declared last, which is the current rule, and changes nothing
\* else; before the first rule header it is dropped.
C28_CommandsAccumulate ==
    [][LineRead =>
          LET line == Last(parser'.lines)
              mf == parser.makefile
          IN /\ parser.currentRule =
                   IF parser.headers = <<>> THEN <<>> ELSE <<Last(parser.headers)>>
             /\ BlankOrComment(line) =>
                   /\ parser'.makefile = mf
                   /\ parser'.currentRule = parser.currentRule
                   /\ parser'.headers = parser.headers
             /\ (~BlankOrComment(line) /\ line[1] = "\t") =>
                   /\ parser'.currentRule = parser.currentRule
                   /\ parser'.headers = parser.headers
                   /\ parser'.makefile.FirstRule = mf.FirstRule
                   /\ parser'.makefile.Variables = mf.Variables
                   /\ IF parser.headers = <<>>
                      THEN parser'.makefile = mf
                      ELSE LET cur == Last(parser.headers)
                           IN /\ DOMAIN parser'.makefile.Rules = DOMAIN mf.Rules
                              /\ \A t \in DOMAIN mf.Rules \ {cur} :
                                    parser'.makefile.Rules[t] = mf.Rules[t]
                              /\ parser'.makefile.Rules[cur].Target = cur
                              /\ parser'.makefile.Rules[cur].Dependencies =
                                    mf.Rules[cur].Dependencies
                              /\ parser'.makefile.Rules[cur].Commands =
                                    Append(mf.Rules[cur].Commands,
                                           expandVariables(Tail(line), mf.Variables))
      ]_vars

\* A Makefile of four lines was parsed: the header a: b, a command, a
\* comment and a second command, and the rule a has the two commands.
C28_Witness ==
    /\ parser.pc = "done"
    /\ parser.lines = << <<"a", ":", " ", "b">>, <<"\t", "cc">>, <<"#", "c">>,
                         <<"\t", "ld", " ", "$", "(", "X", ")">> >>
    /\ DOMAIN parser.makefile.Rules = {<<"a">>}
    /\ parser.makefile.Rules[<<"a">>].Commands \in
          { << <<"cc">>, <<"ld", " ">> >>, << <<"cc">>, <<"ld", " ", "e">> >> }

\* C29: every rule of the parsed Makefile has a non-empty target, and every
\* key of the rules map is the target of the rule stored under it.
C29_RulesWellFormed ==
    \A t \in DOMAIN parser.makefile.Rules :
        /\ parser.makefile.Rules[t].Target # <<>>
        /\ parser.makefile.Rules[t].Target = t

\* C23: the default target is the target of the first rule header that was
\* parsed, whatever headers follow it, and it is empty exactly when the
\* Makefile has no rules.
C23_FirstRuleIsFirstHeader ==
    /\ parser.headers # <<>> => parser.makefile.FirstRule = parser.headers[1]
    /\ parser.makefile.FirstRule = <<>> <=> DOMAIN parser.makefile.Rules = {}

\* --------------------------------------------- claims on the build state

\* C31: no target is marked built and marked as being built at once.
C31_BuiltAndBuildingDisjoint ==
    \A n \in Names : ~(built[n] /\ building[n])

\* C31 witness: in a session that was started by a Reset, a Build has
\* failed and left a target marked as being built while another target is
\* built.
C31_Witness ==
    /\ stack = <<>>
    /\ err # NilErr
    /\ prior # NoPrior
    /\ \E n \in Names : built[n]
    /\ \E m \in Names : building[m]

\* C32: every built target has a rule, every prerequisite of a built
\* target that has a rule is built, and no step other than Reset takes a
\* target out of built.
C32_BuiltClosedAndGrowing ==
    /\ [](\A t \in Names :
            built[t] => /\ HasRule(t)
                        /\ \A d \in Prereqs(t) : HasRule(d) => built[d])
    /\ [][Reset \/ \A n \in Names : built[n] => built'[n]]_vars

\* C32 witness: a target is built that has a prerequisite with a rule,
\* which in turn has a prerequisite without rule.
C32_Witness ==
    \E t \in Names :
        /\ built[t]
        /\ \E d \in Prereqs(t) : HasRule(d) /\ \E e \in Prereqs(d) : ~HasRule(e)

\* A call of Build starts in this step: from outside the Builder, or from
\* the loop over the dependencies of the innermost frame.
BuildEntered ==
    \/ stack = <<>> /\ Len(history') > Len(history)
    \/ /\ Running
       /\ Top.phase = "deps"
       /\ Top.i <= Len(Rules[Top.target].Dependencies)
       /\ <<stack, err>>' # <<stack, err>>

\* The target of the call that starts in this step.
EnteredTarget ==
    IF stack = <<>> THEN Last(history') ELSE Rules[Top.target].Dependencies[Top.i]

\* C34: a Build of a name that has no rule but has a file, and a Build
\* that returns NoRuleForTarget or CycleDetected for its own target, leave
\* built and building as they are; the name with the file is not built.
C34_EntryReturnsChangeNothing ==
    [][BuildEntered =>
          LET t == EnteredTarget
          IN /\ (~HasRule(t) /\ fileExists(t)) =>
                   /\ err' = NilErr
                   /\ ~built'[t]
                   /\ built' = built
                   /\ building' = building
             /\ err' \in {NoRuleErr(t), CycleErr(t)} =>
                   /\ built' = built
                   /\ building' = building
      ]_vars

\* C34 witness: Build of a name without rule that has a file has returned
\* nil to the user of the Builder, and the name is not built.
C34_Witness ==
    /\ Returned
    /\ err = NilErr
    /\ ~HasRule(Last(history))
    /\ fileExists(Last(history))
    /\ ~IsBuilt(Last(history))

\* The staleness check of the innermost frame has just decided to run the
\* commands: none of them has run, and the filesystem is the one the check
\* has seen.
CommandsDecided ==
    /\ Running
    /\ Top.phase = "cmds"
    /\ Top.j = 1

\* C35: when the commands of a rule are run, the newer-prerequisites list
\* of the context is non-empty if the target's file existed at the
\* staleness check, and is the list of all prerequisites if it did not.
C35_ContextMatchesStaleness ==
    CommandsDecided =>
        IF fileExists(Top.target)
        THEN Top.autoVars.NewerPrereqs # <<>>
        ELSE Top.autoVars.NewerPrereqs = Top.autoVars.AllPrereqs

\* C35 witness: the commands of a rule with prerequisites are about to run
\* for an existing target file.
C35_Witness ==
    /\ CommandsDecided
    /\ fileExists(Top.target)
    /\ Top.autoVars.AllPrereqs # <<>>
    /\ Top.autoVars.NewerPrereqs # Top.autoVars.AllPrereqs

\* A call of Build goes on into the body of Build in this step: a frame is
\* pushed for its target.
Descended == Len(stack') > Len(stack)

\* C33: every call of Build returns, and no call goes on into the body of
\* Build for a target that is built or is being built.
C33_BuildReturns ==
    /\ (stack # <<>>) ~> (stack = <<>>)
    /\ [][Descended =>
             LET t == stack'[Len(stack')].target
             IN ~built[t] /\ ~building[t]]_vars

\* C33 witness: a Build of a target from which a prerequisite cycle can be
\* reached has returned after a command was run.
C33_Witness ==
    /\ Returned
    /\ CycleReachable(Last(history))
    /\ \E p \in DOMAIN trace : trace[p].call = Len(history)

\* The parser handles a rule header in this step.
HeaderRead == Len(parser'.headers) > Len(parser.headers)

\* C38: a header whose target the rule map already holds replaces the rule
\* of that target by one with the header's prerequisites and no commands,
\* and changes neither the other rules nor the default target; the
\* commands that follow are appended to the new rule.
C38_LaterHeaderReplacesRule ==
    [][(HeaderRead /\ Last(parser'.headers) \in DOMAIN parser.makefile.Rules) =>
          LET t == Last(parser'.headers)
              mf == parser.makefile
              deps == Fields(TrimSpace(SplitN2(Last(parser'.lines), ":")[2]))
          IN /\ DOMAIN parser'.makefile.Rules = DOMAIN mf.Rules
             /\ \A u \in DOMAIN mf.Rules \ {t} :
                   parser'.makefile.Rules[u] = mf.Rules[u]
             /\ parser'.makefile.Rules[t] =
                   Rule(t, [k \in DOMAIN deps |-> expandVariables(deps[k], mf.Variables)],
                        <<>>)
             /\ parser'.makefile.FirstRule = mf.FirstRule
             /\ parser'.currentRule = <<t>>
      ]_vars

\* C38 witness: a: b with a command, then a: c with another command; the
\* Makefile has the one rule a: c with the second command only.
C38_Witness ==
    /\ parser.pc = "done"
    /\ parser.lines = << <<"a", ":", " ", "b">>, <<"\t", "cc">>,
                         <<"a", ":", " ", "c">>,
                         <<"\t", "ld", " ", "$", "(", "X", ")">> >>
    /\ DOMAIN parser.makefile.Rules = {<<"a">>}
    /\ parser.makefile.Rules[<<"a">>].Dependencies = << <<"c">> >>
    /\ Len(parser.makefile.Rules[<<"a">>].Commands) = 1
    /\ parser.makefile.Rules[<<"a">>].Commands[1][1] = "ld"
    /\ parser.makefile.FirstRule = <<"a">>

\* What the name resolves to before the line of this step is read: the
\* value an earlier line has assigned, else the value of the environment
\* variable, else the empty string.
BoundEarlier(name) ==
    IF name \in DOMAIN parser.makefile.Variables THEN parser.makefile.Variables[name]
    ELSE IF name \in DOMAIN expansion.env THEN expansion.env[name]
    ELSE <<>>

\* C36: a reference in a value, a target, a prerequisite or a command is
\* stored as what the name resolves to when its line is read, and an
\* assignment changes the binding of its name only: the rules, their
\* commands and the values of the other names stay as they were stored.
C36_ResolvedAtParseTime ==
    [][LineRead =>
          LET line == Last(parser'.lines)
              mf == parser.makefile
              after == parser'.makefile
          IN /\ line = <<"Y", "=", "$", "(", "X", ")">> =>
                   after.Variables[YName] = BoundEarlier(XName)
             /\ line = <<"$", "(", "X", ")", ":">> =>
                   /\ Last(parser'.headers) = BoundEarlier(XName)
                   /\ after.Rules[BoundEarlier(XName)].Target = BoundEarlier(XName)
             /\ line = <<"b", ":", " ", "$", "{", "X", "}">> =>
                   after.Rules[<<"b">>].Dependencies = <<BoundEarlier(XName)>>
             /\ (line = <<"\t", "ld", " ", "$", "(", "X", ")">> /\ parser.headers # <<>>) =>
                   Last(after.Rules[Last(parser.headers)].Commands) =
                      <<"ld", " ">> \o BoundEarlier(XName)
             /\ after.Variables # mf.Variables =>
                   /\ after.Rules = mf.Rules
                   /\ after.FirstRule = mf.FirstRule
                   /\ \E name \in {XName, YName} :
                         /\ DOMAIN after.Variables = DOMAIN mf.Variables \cup {name}
                         /\ \A n \in DOMAIN mf.Variables \ {name} :
                               after.Variables[n] = mf.Variables[n]
      ]_vars

\* C36 witness: a command with $(X) was read and X = c on the next line:
\* the command holds what X resolved to when its line was read, and X is c.
C36_Witness ==
    /\ parser.pc = "done"
    /\ \E k \in 1..(Len(parser.lines) - 1) :
          /\ parser.lines[k] = <<"\t", "ld", " ", "$", "(", "X", ")">>
          /\ parser.lines[k + 1] = <<"X", "=", "c">>
    /\ \E t \in DOMAIN parser.makefile.Rules :
          parser.makefile.Rules[t].Commands \in
             { << <<"ld", " ">> >>, << <<"ld", " ", "e">> >>, << <<"ld", " ", "a">> >> }
    /\ parser.makefile.Variables[XName] = <<"c">>

\* C37: the text a command of a parsed Makefile reaches the shell with is
\* the stored command, which the parser has expanded, with the automatic
\* tokens replaced and the references expanded against the variables of the
\* Makefile: a token that a value brought into the command at parse time
\* is replaced by the target, and a reference that stands in the stored
\* command is resolved at build time.
C37_ExpandedTwice ==
    (parser.pc = "done" /\ expansion.pc = "done") =>
        /\ expansion.out =
              expandVariables(TokensReplaced(expansion.text, expansion.autoVars[1]),
                              parser.makefile.Variables)
        /\ parser.lines = << <<"X", "=", "$", "@">>, <<"a", ":", " ", "b">>,
                             <<"\t", "ld", " ", "$", "(", "X", ")">> >> =>
              /\ expansion.text = <<"ld", " ", "$", "@">>
              /\ expansion.out = <<"ld", " ", "a">>
        /\ parser.lines = << <<"Z", "=", "$">>, <<"a", ":", " ", "b">>,
                             <<"\t", "ld", " ", "$", "(", "Z", ")", "(", "X", ")">>,
                             <<"X", "=", "c">> >> =>
              /\ expansion.text = <<"ld", " ", "$", "(", "X", ")">>
              /\ expansion.out = <<"ld", " ", "c">>

\* C37 witness: X = $@, a: b and the command ld $(X) were parsed, and the
\* command of rule a has reached the shell.
C37_Witness ==
    /\ parser.pc = "done"
    /\ expansion.pc = "done"
    /\ parser.lines = << <<"X", "=", "$", "@">>, <<"a", ":", " ", "b">>,
                         <<"\t", "ld", " ", "$", "(", "X", ")">> >>
    /\ expansion.autoVars[1].Target = <<"a">>
    /\ expansion.out = <<"ld", " ", "a">>

====
